---- MODULE Spec2Model ----
(***************************************************************************)
(* BaseValidator (ultralytics/yolo/engine/validator.py): one validator     *)
(* object and the calls made on it.  Every action is a step of             *)
(* BaseValidator.__call__; the fields of `self` and of `self.args` persist *)
(* from one call to the next, the locals of the call do not.               *)
(***************************************************************************)
EXTENDS Integers, Sequences, FiniteSets, TLC

VARIABLES
    kind,        \* the validator's class: "base" (BaseValidator itself) or "task"
    pc,          \* position of the running call; "idle" before the first call
    err,         \* the exception that ended the call, "" if none
    calls,       \* number of calls started on this validator
    hasTrainer,  \* the call was given trainer is not None
    hasModel,    \* the call was given model is not None
    trainer,     \* the trainer the call was given: has it a shadow (ema) model, is
                 \* it on its final epoch (NoTrainer when trainer is None)
    training,    \* self.training
    device,      \* self.device ("" is None)
    half,        \* self.args.half
    plots,       \* self.args.plots
    save_json,   \* self.args.save_json
    batch_size,  \* self.args.batch_size
    data,        \* self.args.data, the dataset locator
    dataloader,  \* self.dataloader (None or Some(loader))
    model,       \* self.model / the local `model` (None or Some(record))
    backend,     \* locals pt, jit, engine of lines 62-71 (None once dead)
    loss,        \* self.loss (None while the attribute does not exist)
    jdict,       \* self.jdict (None, or Some(list of records))
    metrics,     \* the accumulator fed by update_metrics (task validators)
    speed,       \* self.speed (None or Some(4-tuple))
    dt,          \* the four Profile() timers of the call, in milliseconds
    batch_i,     \* loop variable batch_i (-1 outside the loop)
    batch,       \* loop variable batch
    preds,       \* local preds
    stats,       \* local stats
    ret,         \* value returned by the call (None, or Some(map))
    ctx,         \* the inference (no-grad) context of the decorator is active
    trace        \* the calls this call has made on its collaborators, in order

vars == <<kind, pc, err, calls, hasTrainer, hasModel, trainer, training, device, half, plots,
          save_json, batch_size, data, dataloader, model, backend, loss, jdict,
          metrics, speed, dt, batch_i, batch, preds, stats, ret, ctx, trace>>

--------------------------------------------------------------------------
(* Bounds of the model *)

\* samples in the largest validation split
MaxSamples == 4
\* calls made on one validator
MaxCalls == 2

--------------------------------------------------------------------------
(* Values *)

None == <<>>
Some(x) == <<x>>

Devices == {"cpu", "cuda"}

\* batch sizes a compiled-engine backend can report (model.batch_size)
EngineBatchSizes == {1, 4}

\* args.batch_size a validator is configured with
ConfigBatchSizes == {2}

\* dataset locators (args.data) and the splits of the descriptors they resolve to;
\* "" is an absent split
Locators == {"full", "noval"}

SplitSize(split) ==
    CASE split = "v" -> MaxSamples
      [] split = "t" -> 1
      [] OTHER -> 0

\* check_dataset / check_dataset_yaml: the descriptor of a locator
check_dataset(loc) ==
    IF loc = "full" THEN [val |-> "v", test |-> "t"]
                    ELSE [val |-> "", test |-> "t"]

\* a dataloader over a split with a batch size
Loader(split, bs) == [split |-> split, bs |-> bs]

\* dataloaders a validator can be constructed with
SuppliedLoaders == {None, Some(Loader("e", 1)), Some(Loader("t", 1))}

\* len(dataloader.dataset)
DatasetLen(dl) == SplitSize(dl.split)

\* len(dataloader): ceil(samples / batch size)
LoaderLen(dl) == (DatasetLen(dl) + dl.bs - 1) \div dl.bs

Min(a, b) == IF a < b THEN a ELSE b

\* the k-th batch (k = 1..len) the dataloader yields: samples lo..hi of its split
LoaderBatch(dl, k) ==
    [split |-> dl.split, lo |-> (k - 1) * dl.bs + 1,
     hi |-> Min(k * dl.bs, DatasetLen(dl)), pre |-> FALSE]

NoTrainer == [ema |-> FALSE, final |-> FALSE]
Trainers == [ema : BOOLEAN, final : BOOLEAN]

NoBatch == [split |-> "", lo |-> 0, hi |-> 0, pre |-> FALSE]
NoPreds == [of |-> NoBatch, post |-> FALSE]

Stages == {"preprocess", "infer", "loss", "postprocess", "update_metrics", "plot"}

\* wall-clock milliseconds one execution of a stage takes
StageTime(stage) ==
    CASE stage = "preprocess" -> 1
      [] stage = "infer" -> 4
      [] stage = "loss" -> 6
      [] stage = "postprocess" -> 2
      [] stage = "update_metrics" -> 3
      [] OTHER -> 5

RECURSIVE GCD(_, _)
GCD(a, b) == IF b = 0 THEN a ELSE GCD(b, a % b)

\* the exact quotient n / d (d > 0) as a reduced fraction
Rat(n, d) == LET g == GCD(n, d) IN IF g = 0 THEN <<0, 1>> ELSE <<n \div g, d \div g>>

EmptyMap == [k \in {} |-> <<0, 1>>]

\* {**a, **b}: the keys of both, b's value where both have the key
DictMerge(a, b) ==
    [k \in DOMAIN a \cup DOMAIN b |-> IF k \in DOMAIN b THEN b[k] ELSE a[k]]

\* one call made on a collaborator or hook: its name, the batch index it was made
\* for, its arguments, and whether the inference context was active
Event(op, i, b, p) == [op |-> op, i |-> i, batch |-> b, preds |-> p, nograd |-> ctx]

Zeros == <<0, 0, 0, 0>>

--------------------------------------------------------------------------
(* Hooks: the defaults of BaseValidator, and the overrides of a task validator *)

Kinds == {"base", "task", "scored"}

\* def preprocess(self, batch): return batch
preprocess(b) == b

\* a task validator's preprocess: normalisation / device transfer
task_preprocess(b) == [b EXCEPT !.pre = TRUE]

\* self.preprocess(batch)
self_preprocess(b) == IF kind = "base" THEN preprocess(b) ELSE task_preprocess(b)

\* model(batch["img"]): the raw predictions for a batch
model_call(b) == [of |-> b, post |-> FALSE]

\* def postprocess(self, preds): return preds
postprocess(p) == p

\* a task validator's postprocess: decoding / NMS
task_postprocess(p) == [p EXCEPT !.post = TRUE]

\* self.postprocess(preds)
self_postprocess(p) == IF kind = "base" THEN postprocess(p) ELSE task_postprocess(p)

\* trainer.criterion(preds, batch)[1]: the loss items of one batch
criterion(p, b) == b.hi

\* samples for which the model predicts at least one object
Detected(split, s) == split = "v" /\ s % 2 = 0

\* the prediction records a task validator's update_metrics adds to jdict
pred_to_json(p, b) ==
    SelectSeq([i \in 1..(b.hi - b.lo + 1) |-> b.lo + i - 1],
              LAMBDA s : Detected(b.split, s))

\* def get_stats(self): return {}
get_stats == EmptyMap

\* a task validator's get_stats: the finalised accumulator
task_get_stats == [k \in {"metrics/seen"} |-> <<metrics, 1>>]

\* self.get_stats()
self_get_stats == IF kind = "base" THEN get_stats ELSE task_get_stats

\* def eval_json(self, stats): pass
eval_json(st) == None

\* a scoring validator's eval_json: the stats with the external scorer's metrics
scored_eval_json(st) == Some(DictMerge(st[1], [k \in {"metrics/mAP"} |-> <<1, 2>>]))

\* self.eval_json(stats)
self_eval_json(st) == IF kind = "scored" THEN scored_eval_json(st) ELSE eval_json(st)

\* trainer.label_loss_items(loss_items, prefix="val")
label_loss_items(x) == [k \in {"val/loss"} |-> x]

\* tensor / int: a zero divisor gives nan or inf, never an exception
TensorDiv(x, n) ==
    IF n = 0 THEN (IF x = 0 THEN <<0, 0>> ELSE <<1, 0>>) ELSE Rat(x, n)

--------------------------------------------------------------------------
(* The pieces of __call__ *)

\* the loop with its last batch left out
EnumerateShort(dl) == [k \in 1..(LoaderLen(dl) - 1) |-> <<k - 1, LoaderBatch(dl, k)>>]

\* enumerate(bar): the (batch_i, batch) pairs of the loop, in order
Enumerate(dl) == [k \in 1..LoaderLen(dl) |-> <<k - 1, LoaderBatch(dl, k)>>]

\* the two tests of lines 64 and 68 in the other order
ResolveBatchSizeSwapped(bs, pt, jit, engine, ebs) ==
    IF ~pt /\ ~jit THEN [bs |-> 1, forced |-> TRUE]
    ELSE IF engine THEN [bs |-> ebs, forced |-> FALSE]
    ELSE [bs |-> bs, forced |-> FALSE]

\* lines 64-71: the batch size after the backend's capabilities are known, and
\* whether "Forcing --batch-size 1" is logged
ResolveBatchSize(bs, pt, jit, engine, ebs) ==
    IF engine THEN [bs |-> ebs, forced |-> FALSE]
    ELSE IF ~pt /\ ~jit THEN [bs |-> 1, forced |-> TRUE]
    ELSE [bs |-> bs, forced |-> FALSE]

\* the model handle given priority over the trainer
TrainingModelFirst(t, m) == t /\ ~m

\* self.training = trainer is not None (t, m: a trainer, a model was passed)
Training(t, m) == t

\* model = trainer.ema.ema or trainer.model
EvalModel(tr) == IF tr.ema THEN "ema" ELSE "live"

\* the configured option kept when it is set
FinalEpochOrConfigured(pl, tr) == pl \/ tr.final

\* self.args.plots = trainer.epoch == trainer.epochs - 1, whatever args.plots was
FinalEpoch(pl, tr) == tr.final

\* model.float() left out
ModelFloatSkipped(m) == m

\* model.float()
ModelFloat(m) == [m EXCEPT !.prec = "float"]

\* an accumulator that is only created once and then kept
NewLossKept(ls) == IF ls = None THEN Some(0) ELSE ls

\* self.loss = torch.zeros_like(trainer.loss_items, ...), whatever self.loss was
NewLoss(ls) == Some(0)

\* the flag kept whatever the device is
ResolveHalfAnyDevice(h, dev) == h

\* self.args.half &= self.device.type != 'cpu'
ResolveHalf(h, dev) == h /\ dev # "cpu"

\* a list that is only created when there is none yet
ResetJdictOnce(jd) == IF jd = None THEN Some(<<>>) ELSE jd

\* self.jdict = []  # empty before each val
ResetJdict(jd) == Some(<<>>)

\* if self.args.plots and batch_i < 3
PlotCap == 3
PlotNowInclusive(pl, i) == pl /\ i <= PlotCap
PlotNow(pl, i) == pl /\ i < PlotCap

\* with dt[k]: the stage's elapsed time is added to its own timer
Timed(d, k, elapsed) == [d EXCEPT ![k] = d[k] + elapsed]

\* the batch count as divisor
SpeedDivisorBatches(dl) == LoaderLen(dl)

\* len(self.dataloader.dataset), the divisor of line 118
SpeedDivisor(dl) == DatasetLen(dl)

\* tuple(x.t / n * 1E3 for x in dt); x.t is in seconds, d[k] in milliseconds
Speed(d, n) == [k \in 1..4 |-> Rat(d[k] * 1000, 1000 * n)]

\* the export decided by the switch alone
ExportJsonAlways(sj, jd) == sj

\* if self.args.save_json and self.jdict
ExportJson(sj, jd) == sj /\ jd # None /\ jd[1] # <<>>

\* the loss averaged over the samples instead of the batches
EmbeddedReturnPerSample(st, ls, dl) ==
    DictMerge(st, label_loss_items(TensorDiv(ls, DatasetLen(dl))))

\* {**stats, **trainer.label_loss_items(self.loss.cpu() / len(self.dataloader), prefix="val")}
EmbeddedReturn(st, ls, dl) == DictMerge(st, label_loss_items(TensorDiv(ls, LoaderLen(dl))))

\* print_results called before check_stats
AggregateOpsSwapped == <<"get_stats", "print_results", "check_stats">>

\* lines 115-117: the accumulator's hooks called after the loop, in order
AggregateOps == <<"get_stats", "check_stats", "print_results">>

\* the arguments a stage is invoked with
StageBatch(stage) == IF stage = "postprocess" THEN NoBatch ELSE batch
StagePreds(stage) == IF stage \in {"preprocess", "infer"} THEN NoPreds ELSE preds
StageEvent(stage) == Event(stage, batch_i, StageBatch(stage), StagePreds(stage))

\* __call__ without its decorator
EnterUndecorated == ctx' = FALSE

\* the call enters __call__ under @smart_inference_mode(): the context is entered
Enter == ctx' = TRUE

\* smart_inference_mode's context is released when the decorated call is left
Release == ctx' = FALSE

\* a stage's exception caught inside the loop, which goes on with the next batch
ExitSwallowed(outcome, e) ==
    pc' = (IF e = "StageError" THEN "loop" ELSE outcome) /\ err' = e /\ Release

\* the call leaves __call__, by return ("done") or by an exception ("raised")
Exit(outcome, e) == pc' = outcome /\ err' = e /\ Release

--------------------------------------------------------------------------
(* State *)

argsVars == <<half, plots, save_json, batch_size, data>>
loopVars == <<batch_i, batch, preds>>
callVars == <<calls, hasTrainer, hasModel, trainer>>

Init ==
    /\ kind \in Kinds
    /\ pc = "idle" /\ err = "" /\ calls = 0
    /\ hasTrainer = FALSE /\ hasModel = FALSE /\ trainer = NoTrainer
    /\ training = TRUE
    /\ device = ""
    /\ half \in BOOLEAN /\ plots \in BOOLEAN /\ save_json \in BOOLEAN
    /\ batch_size \in ConfigBatchSizes
    /\ data \in Locators
    /\ dataloader \in SuppliedLoaders
    /\ model = None /\ backend = None /\ loss = None /\ jdict = None
    /\ metrics = 0 /\ speed = None /\ dt = Zeros
    /\ batch_i = -1 /\ batch = NoBatch /\ preds = NoPreds
    /\ stats = None /\ ret = None /\ ctx = FALSE /\ trace = <<>>

\* lines 40-46: __call__(trainer, model) is entered
Call ==
    \E t \in BOOLEAN, m \in BOOLEAN, tr \in Trainers :
        /\ pc \in {"idle", "done", "raised"}
        /\ calls < MaxCalls
        /\ calls' = calls + 1
        /\ hasTrainer' = t /\ hasModel' = m
        /\ trainer' = (IF t THEN tr ELSE NoTrainer)
        /\ training' = Training(t, m)
        /\ Enter
        /\ pc' = "resolve" /\ err' = ""
        /\ backend' = None /\ dt' = Zeros
        /\ batch_i' = -1 /\ batch' = NoBatch /\ preds' = NoPreds
        /\ stats' = None /\ ret' = None /\ trace' = <<>>
        /\ UNCHANGED <<kind, device, argsVars, dataloader, model, loss, jdict,
                       metrics, speed>>

\* lines 47-55: resolution from the trainer
ResolveEmbedded ==
    \E dev \in Devices :
        /\ pc = "resolve" /\ training
        /\ device' = dev
        /\ half' = ResolveHalf(half, dev)
        /\ model' = Some([src |-> EvalModel(trainer),
                          prec |-> IF half' THEN "half" ELSE "float"])
        /\ trace' = Append(trace, Event(IF half' THEN "to_half" ELSE "to_float",
                                        -1, NoBatch, NoPreds))
        /\ loss' = NewLoss(loss)
        /\ plots' = FinalEpoch(plots, trainer)
        /\ pc' = "setup"
        /\ UNCHANGED <<kind, err, callVars, training, save_json, batch_size, data,
                       dataloader, backend, jdict, metrics, speed, dt, loopVars,
                       stats, ret, ctx>>

\* lines 56-71: resolution from the model handle
ResolveStandalone ==
    /\ pc = "resolve" /\ ~training
    /\ IF ~hasModel
       THEN /\ Exit("raised", "AssertionError")
            /\ UNCHANGED <<kind, callVars, training, device, argsVars, dataloader,
                           model, backend, loss, jdict, metrics, speed, dt, loopVars,
                           stats, ret, trace>>
       ELSE \E dev \in Devices, pt \in BOOLEAN, jit \in BOOLEAN, engine \in BOOLEAN,
               ebs \in EngineBatchSizes :
            LET r == ResolveBatchSize(batch_size, pt, jit, engine, ebs)
                called == <<Event("select_device", -1, NoBatch, NoPreds),
                            Event("AutoBackend", -1, NoBatch, NoPreds),
                            Event("check_imgsz", -1, NoBatch, NoPreds)>>
                logged == IF r.forced
                          THEN <<Event("log_forcing_batch_size_1", -1, NoBatch, NoPreds)>>
                          ELSE <<>>
            IN  /\ device' = dev
                /\ half' = ResolveHalf(half, dev)
                /\ model' = Some([src |-> "backend",
                                  prec |-> IF half' THEN "half" ELSE "float"])
                /\ backend' = Some([pt |-> pt, jit |-> jit, engine |-> engine])
                /\ batch_size' = r.bs
                /\ trace' = trace \o called \o logged
                /\ pc' = "data"
                /\ UNCHANGED <<kind, err, callVars, training, plots, save_json, data,
                               dataloader, loss, jdict, metrics, speed, dt, loopVars,
                               stats, ret, ctx>>

\* lines 73-78: the dataset descriptor and, if none was supplied, the dataloader
ResolveData ==
    /\ pc = "data"
    /\ backend' = None
    /\ LET d == check_dataset(data)
           checked == Append(trace, Event("check_dataset", -1, NoBatch, NoPreds))
       IN  IF dataloader # None
           THEN /\ pc' = "setup" /\ trace' = checked
                /\ UNCHANGED <<dataloader, err, ctx>>
           ELSE IF d.val = ""
           THEN \* data.set("test"): a dict has no attribute set
                /\ Exit("raised", "AttributeError") /\ trace' = checked
                /\ UNCHANGED dataloader
           ELSE IF kind = "base"
           THEN \* get_dataloader raises NotImplementedError
                /\ Exit("raised", "NotImplementedError")
                /\ trace' = Append(checked, Event("get_dataloader", -1, NoBatch, NoPreds))
                /\ UNCHANGED dataloader
           ELSE /\ dataloader' = Some(Loader(d.val, batch_size))
                /\ trace' = Append(checked, Event("get_dataloader", -1, NoBatch, NoPreds))
                /\ pc' = "setup"
                /\ UNCHANGED <<err, ctx>>
    /\ UNCHANGED <<kind, callVars, training, device, argsVars, model, loss, jdict,
                   metrics, speed, dt, loopVars, stats, ret>>

\* lines 80-90: eval mode, timers, init_metrics, jdict reset
Setup ==
    /\ pc = "setup"
    /\ IF dataloader = None
       THEN \* len(None) raises TypeError
            /\ Exit("raised", "TypeError")
            /\ trace' = Append(trace, Event("model.eval", -1, NoBatch, NoPreds))
            /\ UNCHANGED <<dt, metrics, jdict>>
       ELSE /\ trace' = trace \o <<Event("model.eval", -1, NoBatch, NoPreds),
                                    Event("init_metrics", -1, NoBatch, NoPreds)>>
            /\ dt' = Zeros
            /\ metrics' = 0
            /\ jdict' = ResetJdict(jdict)
            /\ pc' = "loop"
            /\ UNCHANGED <<err, ctx>>
    /\ UNCHANGED <<kind, callVars, training, device, argsVars, dataloader, model,
                   backend, loss, speed, loopVars, stats, ret>>

\* lines 91-92: the next (batch_i, batch) of the loop, or the end of the loop
LoopNext ==
    /\ pc = "loop"
    /\ LET items == Enumerate(dataloader[1])
           done == batch_i + 1
       IN  IF done < Len(items)
           THEN /\ batch_i' = items[done + 1][1]
                /\ batch' = items[done + 1][2]
                /\ preds' = NoPreds
                /\ pc' = "preprocess"
           ELSE /\ pc' = "aggregate"
                /\ UNCHANGED loopVars
    /\ UNCHANGED <<kind, err, callVars, training, device, argsVars, dataloader, model,
                   backend, loss, jdict, metrics, speed, dt, stats, ret, ctx, trace>>

\* lines 94-95: with dt[0]: batch = self.preprocess(batch)
Preprocess ==
    /\ pc = "preprocess"
    /\ trace' = Append(trace, StageEvent("preprocess"))
    /\ batch' = self_preprocess(batch)
    /\ dt' = Timed(dt, 1, StageTime("preprocess"))
    /\ pc' = "infer"
    /\ UNCHANGED <<kind, err, callVars, training, device, argsVars, dataloader, model,
                   backend, loss, jdict, metrics, speed, batch_i, preds, stats, ret, ctx>>

\* lines 98-99: with dt[1]: preds = model(batch["img"])
Infer ==
    /\ pc = "infer"
    /\ trace' = Append(trace, StageEvent("infer"))
    /\ preds' = model_call(batch)
    /\ dt' = Timed(dt, 2, StageTime("infer"))
    /\ pc' = "loss"
    /\ UNCHANGED <<kind, err, callVars, training, device, argsVars, dataloader, model,
                   backend, loss, jdict, metrics, speed, batch_i, batch, stats, ret, ctx>>

\* lines 102-104: with dt[2]: if self.training: self.loss += trainer.criterion(preds, batch)[1]
Loss ==
    /\ pc = "loss"
    /\ IF training
       THEN /\ trace' = Append(trace, StageEvent("loss"))
            /\ loss' = Some(loss[1] + criterion(preds, batch))
       ELSE UNCHANGED <<trace, loss>>
    /\ dt' = Timed(dt, 3, StageTime("loss"))
    /\ pc' = "postprocess"
    /\ UNCHANGED <<kind, err, callVars, training, device, argsVars, dataloader, model,
                   backend, jdict, metrics, speed, loopVars, stats, ret, ctx>>

\* postprocess called with its result thrown away
PostprocessDiscarded ==
    /\ pc = "postprocess"
    /\ trace' = Append(trace, StageEvent("postprocess"))
    /\ dt' = Timed(dt, 4, StageTime("postprocess"))
    /\ pc' = "update_metrics"
    /\ UNCHANGED <<kind, err, callVars, training, device, argsVars, dataloader, model,
                   backend, loss, jdict, metrics, speed, loopVars, stats, ret, ctx>>

\* lines 107-108: with dt[3]: preds = self.postprocess(preds)
Postprocess ==
    /\ pc = "postprocess"
    /\ trace' = Append(trace, StageEvent("postprocess"))
    /\ preds' = self_postprocess(preds)
    /\ dt' = Timed(dt, 4, StageTime("postprocess"))
    /\ pc' = "update_metrics"
    /\ UNCHANGED <<kind, err, callVars, training, device, argsVars, dataloader, model,
                   backend, loss, jdict, metrics, speed, batch_i, batch, stats, ret, ctx>>

\* line 110: self.update_metrics(preds, batch); the default does nothing, a task
\* validator ingests the batch and keeps its prediction records in jdict
UpdateMetrics ==
    /\ pc = "update_metrics"
    /\ trace' = Append(trace, StageEvent("update_metrics"))
    /\ IF kind = "base"
       THEN UNCHANGED <<metrics, jdict>>
       ELSE /\ metrics' = metrics + 1
            /\ jdict' = Some(jdict[1] \o pred_to_json(preds, batch))
    /\ pc' = "plot"
    /\ UNCHANGED <<kind, err, callVars, training, device, argsVars, dataloader, model,
                   backend, loss, speed, dt, loopVars, stats, ret, ctx>>

\* lines 111-113: the two visualization hooks
Plot ==
    /\ pc = "plot"
    /\ IF PlotNow(plots, batch_i)
       THEN trace' = trace \o <<Event("plot_val_samples", batch_i, batch, NoPreds),
                                 Event("plot_predictions", batch_i, batch, preds)>>
       ELSE UNCHANGED trace
    /\ pc' = "loop"
    /\ UNCHANGED <<kind, err, callVars, training, device, argsVars, dataloader, model,
                   backend, loss, jdict, metrics, speed, dt, loopVars, stats, ret, ctx>>

\* a stage of the pipeline raises: nothing catches it, the call ends
RaisingStages == {"preprocess", "infer", "loss", "postprocess", "update_metrics"}
StageRaises ==
    /\ pc \in RaisingStages
    /\ pc = "loss" => training
    /\ trace' = Append(trace, StageEvent(pc))
    /\ Exit("raised", "StageError")
    /\ UNCHANGED <<kind, callVars, training, device, argsVars, dataloader, model,
                   backend, loss, jdict, metrics, speed, dt, loopVars, stats, ret>>

\* lines 115-118: get_stats, check_stats, print_results, self.speed
Aggregate ==
    /\ pc = "aggregate"
    /\ stats' = Some(self_get_stats)
    /\ trace' = trace \o [k \in 1..Len(AggregateOps) |->
                                Event(AggregateOps[k], -1, NoBatch, NoPreds)]
    /\ IF SpeedDivisor(dataloader[1]) = 0
       THEN \* x.t / 0 raises ZeroDivisionError
            /\ Exit("raised", "ZeroDivisionError")
            /\ UNCHANGED speed
       ELSE /\ speed' = Some(Speed(dt, SpeedDivisor(dataloader[1])))
            /\ pc' = "report"
            /\ UNCHANGED <<err, ctx>>
    /\ UNCHANGED <<kind, callVars, training, device, argsVars, dataloader, model,
                   backend, loss, jdict, metrics, dt, loopVars, ret>>

\* lines 119-121: the embedded call's return
ReportEmbedded ==
    /\ pc = "report" /\ training
    /\ model' = Some(ModelFloat(model[1]))
    /\ trace' = trace \o <<Event("restore_float", -1, NoBatch, NoPreds),
                             Event("label_loss_items", -1, NoBatch, NoPreds)>>
    /\ ret' = Some(EmbeddedReturn(stats[1], loss[1], dataloader[1]))
    /\ Exit("done", "")
    /\ UNCHANGED <<kind, callVars, training, device, argsVars, dataloader, backend,
                   loss, jdict, metrics, speed, dt, loopVars, stats>>

\* lines 122-130: the standalone call's export and return
ReportStandalone ==
    /\ pc = "report" /\ ~training
    /\ IF ExportJson(save_json, jdict)
       THEN /\ trace' = trace \o <<Event("json.dump", -1, NoBatch, NoPreds),
                                     Event("eval_json", -1, NoBatch, NoPreds)>>
            /\ stats' = self_eval_json(stats)
       ELSE UNCHANGED <<trace, stats>>
    /\ ret' = stats'
    /\ Exit("done", "")
    /\ UNCHANGED <<kind, callVars, training, device, argsVars, dataloader, model,
                   backend, loss, jdict, metrics, speed, dt, loopVars>>

Next ==
    \/ Call
    \/ ResolveEmbedded
    \/ ResolveStandalone
    \/ ResolveData
    \/ Setup
    \/ LoopNext
    \/ Preprocess
    \/ Infer
    \/ Loss
    \/ Postprocess
    \/ UpdateMetrics
    \/ Plot
    \/ StageRaises
    \/ Aggregate
    \/ ReportEmbedded
    \/ ReportStandalone

Spec == Init /\ [][Next]_vars

--------------------------------------------------------------------------
(* Properties *)

\* the events of the running (or last) call with a given name
Ops(op) == SelectSeq(trace, LAMBDA e : e.op = op)
HasOp(op) == \E k \in 1..Len(trace) : trace[k].op = op
Ended == pc \in {"done", "raised"}
Returned == pc = "done"
Batches == LoaderLen(dataloader[1])
Samples == DatasetLen(dataloader[1])
PipelineStages == {"preprocess", "infer", "postprocess", "update_metrics"}

\* C1: a call that returns over a dataloader of N >= 1 batches has run every stage
\* of the pipeline exactly N times, the k-th time with batch_i = k - 1 on the k-th
\* batch the dataloader yields; update_metrics is invoked N times, the k-th time
\* with the (preprocessed) k-th batch.
C1_PipelineOncePerBatch ==
    (Returned /\ Batches >= 1) =>
        /\ \A st \in PipelineStages : Len(Ops(st)) = Batches
        /\ \A k \in 1..Batches :
            /\ \A st \in PipelineStages : Ops(st)[k].i = k - 1
            /\ Ops("preprocess")[k].batch = LoaderBatch(dataloader[1], k)
            /\ Ops("update_metrics")[k].batch
                  = self_preprocess(LoaderBatch(dataloader[1], k))

C1_Witness ==
    /\ Returned /\ Batches >= 2
    /\ Len(Ops("update_metrics")) = Batches
    /\ Ops("update_metrics")[2].batch.lo > 1

ResolveEmbeddedOps == {"to_half", "to_float"}
ResolveStandaloneOps == {"select_device", "AutoBackend", "check_imgsz",
                         "log_forcing_batch_size_1", "check_dataset", "get_dataloader"}
EmbeddedOnly ==
    /\ trace # <<>> /\ trace[1].op \in ResolveEmbeddedOps
    /\ \A k \in 1..Len(trace) : trace[k].op \notin ResolveStandaloneOps
StandaloneOnly ==
    /\ Len(trace) >= 2 /\ trace[1].op = "select_device" /\ trace[2].op = "AutoBackend"
    /\ \A k \in 1..Len(trace) : trace[k].op \notin ResolveEmbeddedOps
FailedPrecondition == pc = "raised" /\ err = "AssertionError" /\ trace = <<>>
Resolving == pc \in {"idle", "resolve"}

\* C2 as stated: both handles or neither fail with the precondition error before
\* anything runs; a trainer alone runs the embedded path, a model alone the
\* standalone path.
C2_BothOrNeitherFails ==
    ~Resolving =>
        /\ (hasTrainer = hasModel) => FailedPrecondition
        /\ (hasTrainer /\ ~hasModel) => EmbeddedOnly
        /\ (~hasTrainer /\ hasModel) => StandaloneOnly

\* C2 amended: exactly one resolution path runs per call that gets past the
\* precondition.  A call given a trainer runs the embedded path only, whether or
\* not a model is given too (the trainer has priority); a call given only a model
\* runs the standalone path only; a call given neither fails with the
\* precondition (assertion) error before any resolution step or hook runs.
C2_TrainerHasPriority ==
    ~Resolving =>
        /\ hasTrainer => (EmbeddedOnly /\ ~FailedPrecondition)
        /\ (~hasTrainer /\ hasModel) => (StandaloneOnly /\ ~FailedPrecondition)
        /\ (~hasTrainer /\ ~hasModel) => FailedPrecondition

C2_Witness == Returned /\ hasTrainer /\ hasModel /\ EmbeddedOnly

JdictPending == jdict # None /\ jdict[1] # <<>>

\* C3 as stated: in both modes the artifact is written, and eval_json called, iff
\* export was requested and jdict is non-empty at the end of the loop.
C3_ExportInBothModes ==
    Returned =>
        /\ HasOp("json.dump") <=> (save_json /\ JdictPending)
        /\ HasOp("eval_json") <=> (save_json /\ JdictPending)

\* C3 amended: a standalone call that completes writes the artifact and calls
\* eval_json iff export was requested and jdict is non-empty at the end of the
\* loop; an embedded call, and a call that does not complete, never does either.
C3_ExportStandaloneOnly ==
    /\ HasOp("json.dump") <=> (Returned /\ ~training /\ save_json /\ JdictPending)
    /\ HasOp("eval_json") <=> HasOp("json.dump")

C3_Witness ==
    /\ Returned /\ ~training /\ HasOp("json.dump") /\ Len(jdict[1]) >= 2

\* C4 as stated: in standalone resolution the batch size is forced to 1 iff
\* pt = false and jit = false, whatever engine is.
C4_ForcedIffNotPtNotJit ==
    pc = "data" =>
        /\ (~backend[1].pt /\ ~backend[1].jit) => batch_size = 1
        /\ HasOp("log_forcing_batch_size_1") => (~backend[1].pt /\ ~backend[1].jit)

\* C4 amended: in standalone resolution the batch size is forced to 1 (and the
\* forcing is logged) iff the backend reports none of the three capabilities,
\* pt = jit = engine = false; a compiled-engine backend gets its own fixed batch
\* size whatever pt and jit are.
C4_ForcedIffNoCapability ==
    pc = "data" =>
        /\ HasOp("log_forcing_batch_size_1")
              <=> (~backend[1].pt /\ ~backend[1].jit /\ ~backend[1].engine)
        /\ HasOp("log_forcing_batch_size_1") => batch_size = 1
        /\ backend[1].engine => batch_size \in EngineBatchSizes

C4_Witness ==
    /\ pc = "data" /\ backend[1].engine /\ ~backend[1].pt /\ ~backend[1].jit
    /\ batch_size # 1 /\ ~HasOp("log_forcing_batch_size_1")

PlotOps == {"plot_val_samples", "plot_predictions"}

\* the k-th event is an update_metrics that returned and whose batch is finished
MetricsUpdated(k) ==
    /\ trace[k].op = "update_metrics"
    /\ k < Len(trace) \/ pc \notin {"plot", "raised"}

\* C5: with plotting enabled (args.plots as resolved for the call), plot_val_samples
\* and then plot_predictions are invoked right after update_metrics for every batch
\* of index 0, 1 or 2, and for no batch of index >= 3; with plotting disabled they
\* are never invoked.
C5_PlotsFirstThreeBatches ==
    \A k \in 1..Len(trace) :
        /\ trace[k].op \in PlotOps => (plots /\ trace[k].i < PlotCap)
        /\ trace[k].op = "plot_val_samples" =>
              /\ trace[k - 1].op = "update_metrics" /\ trace[k - 1].i = trace[k].i
              /\ trace[k + 1].op = "plot_predictions" /\ trace[k + 1].i = trace[k].i
        /\ trace[k].op = "plot_predictions" => trace[k - 1].op = "plot_val_samples"
        /\ (MetricsUpdated(k) /\ plots /\ trace[k].i < PlotCap) =>
              trace[k + 1].op = "plot_val_samples"

C5_Witness ==
    /\ Returned /\ plots /\ Batches > PlotCap
    /\ Len(Ops("plot_val_samples")) = PlotCap
    /\ Len(Ops("plot_predictions")) = PlotCap
    /\ \E k \in 1..Len(trace) : trace[k].op = "update_metrics" /\ trace[k].i = PlotCap

RECURSIVE SumHi(_, _)
\* the loss items of the first n batches of a dataloader, summed
SumHi(dl, n) == IF n = 0 THEN 0 ELSE SumHi(dl, n - 1) + LoaderBatch(dl, n).hi

\* C6: an embedded call returns the stats of get_stats together with the trainer's
\* loss terms "val/..." whose value is the loss accumulated over the call's batches
\* divided by the batch count; a standalone call returns no loss term and consults
\* neither the criterion nor label_loss_items.
C6_ReturnValue ==
    Returned =>
        IF training
        THEN /\ ret # None
             /\ DOMAIN ret[1] = DOMAIN self_get_stats \cup {"val/loss"}
             /\ \A k \in DOMAIN self_get_stats \ {"val/loss"} :
                    ret[1][k] = self_get_stats[k]
             /\ ret[1]["val/loss"][2] > 0
             /\ ret[1]["val/loss"][1] * Batches
                    = ret[1]["val/loss"][2] * SumHi(dataloader[1], Batches)
        ELSE /\ ret # None => "val/loss" \notin DOMAIN ret[1]
             /\ ~HasOp("loss") /\ ~HasOp("label_loss_items")

C6_Witness ==
    /\ Returned /\ training /\ Batches >= 2 /\ Batches # Samples
    /\ "metrics/seen" \in DOMAIN ret[1]

\* C7 as stated: the inference context is active when the model is invoked, is not
\* active during preprocess, loss, postprocess or update_metrics, and is released
\* when the call ends.
C7_ContextScopedToInference ==
    /\ \A k \in 1..Len(trace) :
        /\ trace[k].op = "infer" => trace[k].nograd
        /\ trace[k].op \in {"preprocess", "loss", "postprocess", "update_metrics"}
              => ~trace[k].nograd
    /\ Ended => ~ctx

\* C7 amended: the inference context is entered once when the call is entered and
\* released when the call is left: it is active for every stage and hook of the
\* call (preprocess, inference, loss, postprocess, update_metrics and the rest), and
\* it is released on every exit path, return or exception, so no call ends with
\* the context still active.
C7_ContextScopedToCall ==
    /\ \A k \in 1..Len(trace) : trace[k].nograd
    /\ ctx <=> ~(Ended \/ pc = "idle")

C7_Witness ==
    /\ pc = "raised" /\ err = "StageError" /\ ~ctx
    /\ trace[Len(trace)].op = "loss" /\ trace[Len(trace)].nograd

Phase(op) ==
    CASE op \in ResolveEmbeddedOps \cup ResolveStandaloneOps -> 1
      [] op \in {"model.eval", "init_metrics"} -> 2
      [] op \in PipelineStages \cup PlotOps \cup {"loss"} -> 3
      [] op \in {"get_stats", "check_stats", "print_results"} -> 4
      [] OTHER -> 5

\* the position of the only event of a name
Pos(op) == CHOOSE k \in 1..Len(trace) : trace[k].op = op

\* C8: within a call the phases RESOLVE, SETUP, BATCH_LOOP, AGGREGATE, REPORT occur
\* in that order and none is entered twice; model.eval() and init_metrics are each
\* invoked once, in that order, after resolution and before the first preprocess;
\* get_stats, check_stats and print_results are each invoked once, in that order,
\* after the last update_metrics and before the call returns.
C8_PhasesInOrder ==
    /\ \A k \in 2..Len(trace) : Phase(trace[k - 1].op) <= Phase(trace[k].op)
    /\ \A op \in {"model.eval", "init_metrics", "get_stats", "check_stats",
                   "print_results"} :
           /\ Len(Ops(op)) <= 1
           /\ Returned => Len(Ops(op)) = 1
    /\ HasOp("init_metrics") => Pos("init_metrics") = Pos("model.eval") + 1
    /\ HasOp("get_stats") =>
           /\ HasOp("check_stats") /\ Pos("check_stats") = Pos("get_stats") + 1
           /\ HasOp("print_results") /\ Pos("print_results") = Pos("get_stats") + 2

C8_Witness ==
    /\ Returned /\ Batches >= 2
    /\ Pos("init_metrics") < Pos("preprocess")
    /\ Pos("print_results") < Len(trace)

TimerStage == <<"preprocess", "infer", "loss", "postprocess">>

\* C9: when a call returns, self.speed is the 4-tuple (preprocess, inference, loss,
\* postprocess) whose k-th entry is the time the k-th stage took in this call alone
\* (update_metrics and the plots excluded), divided by the dataset's sample count
\* and expressed in milliseconds; no entry is negative.  Totals of 10, 40, 0 and
\* 5 ms over 100 samples give 0.1, 0.4, 0.0 and 0.05 ms per sample.
C9_SpeedPerSample ==
    /\ Returned =>
        /\ speed # None /\ Len(speed[1]) = 4
        /\ \A k \in 1..4 :
            /\ speed[1][k][1] >= 0 /\ speed[1][k][2] > 0
            /\ speed[1][k][1] * Samples
                  = speed[1][k][2] * (Batches * StageTime(TimerStage[k]))
    /\ Speed(<<10, 40, 0, 5>>, 100) = << <<1, 10>>, <<2, 5>>, <<0, 1>>, <<1, 20>> >>

C9_Witness ==
    /\ Returned /\ calls = 2 /\ Batches >= 2 /\ Batches # Samples
    /\ speed[1][2] = <<2, 1>>

\* C10: over an empty dataset (no batch, no sample) the loop body never runs,
\* get_stats and print_results still run, and the call does not fail with a
\* division by zero: it reaches REPORT.
C10_EmptyDatasetReachesReport ==
    (dataloader # None /\ Samples = 0 /\ HasOp("print_results")) =>
        /\ ~HasOp("preprocess") /\ HasOp("get_stats")
        /\ err # "ZeroDivisionError"
        /\ pc \in {"report", "done"}

LoopOps == PipelineStages \cup PlotOps \cup {"loss"}

\* the batch the dataloader yields for batch index i
Yielded(i) == LoaderBatch(dataloader[1], i + 1)

\* C11: for every batch the stages run in the order preprocess, infer, loss (embedded
\* only), postprocess, update_metrics, then the plots; infer gets the batch that
\* preprocess returned, postprocess the raw predictions of infer, update_metrics the
\* postprocessed predictions and the preprocessed batch; a stage of batch i + 1 only
\* starts after the last stage of batch i.
C11_StagesInSequence ==
    \A k \in 2..Len(trace) :
        LET a == trace[k - 1]
            b == trace[k]
        IN  /\ b.op = "preprocess" =>
                /\ b.batch = Yielded(b.i)
                /\ \/ b.i = 0 /\ a.op = "init_metrics"
                   \/ b.i = a.i + 1 /\ a.op \in {"update_metrics", "plot_predictions"}
            /\ b.op = "infer" =>
                /\ a.op = "preprocess" /\ a.i = b.i
                /\ b.batch = self_preprocess(a.batch)
            /\ b.op = "loss" =>
                /\ training /\ a.op = "infer" /\ a.i = b.i
                /\ b.batch = a.batch /\ b.preds = model_call(a.batch)
            /\ b.op = "postprocess" =>
                /\ a.op = (IF training THEN "loss" ELSE "infer") /\ a.i = b.i
                /\ b.preds = model_call(self_preprocess(Yielded(b.i)))
            /\ b.op = "update_metrics" =>
                /\ a.op = "postprocess" /\ a.i = b.i
                /\ b.preds = self_postprocess(a.preds)
                /\ b.batch = self_preprocess(Yielded(b.i))
            /\ b.op = "plot_val_samples" => a.op = "update_metrics" /\ a.i = b.i
            /\ b.op = "plot_predictions" => a.op = "plot_val_samples" /\ a.i = b.i

C11_Witness ==
    /\ Returned /\ kind = "task" /\ training /\ Batches >= 2
    /\ Ops("update_metrics")[2].preds.post
    /\ Ops("update_metrics")[2].batch.pre
    /\ Ops("update_metrics")[2].preds.of = Ops("infer")[2].batch

C12_CriterionPerBatch ==
    /\ \A k \in 1..Len(trace) :
        /\ trace[k].op = "loss" =>
            /\ training
            /\ trace[k - 1].op = "infer" /\ trace[k - 1].i = trace[k].i
            /\ trace[k].preds = model_call(trace[k - 1].batch)
            /\ ~trace[k].preds.post
            /\ k < Len(trace) =>
                  (trace[k + 1].op = "postprocess" /\ trace[k + 1].i = trace[k].i)
        /\ (training /\ trace[k].op = "postprocess") => trace[k - 1].op = "loss"
    /\ (training /\ HasOp("init_metrics") /\ pc # "raised") =>
           loss = Some(SumHi(dataloader[1], Len(Ops("loss"))))
    /\ (training /\ pc \in {"aggregate", "report", "done"}) =>
           /\ Len(Ops("loss")) = Batches
           /\ loss = Some(SumHi(dataloader[1], Batches))
    /\ ~training => (~HasOp("loss") /\ ~HasOp("label_loss_items"))

\* C12: in embedded mode the criterion is invoked once per batch, between infer and
\* postprocess, on the raw predictions, and its loss is added to an accumulator
\* zeroed in this call, so the loss at REPORT is the sum over this call's batches
\* whatever earlier calls did; in standalone mode the criterion is never invoked and
\* the accumulator is neither written nor read.
C12_LossAccumulator ==
    /\ []C12_CriterionPerBatch
    /\ [][~training' => loss' = loss]_vars

C12_Witness ==
    /\ Returned /\ training /\ calls = 2 /\ Batches >= 2
    /\ Len(Ops("loss")) = Batches
    /\ loss[1] > Batches

RECURSIVE RecordsOf(_)
\* the prediction records of a sequence of update_metrics calls
RecordsOf(evs) ==
    IF evs = <<>> THEN <<>>
    ELSE RecordsOf(SubSeq(evs, 1, Len(evs) - 1))
             \o pred_to_json(evs[Len(evs)].preds, evs[Len(evs)].batch)

\* C13: in every call of a sequence of calls, jdict is empty when the first batch is
\* processed, and from then on holds the records of this call's batches only: no
\* record of an earlier call is present in, or exported by, a later call.
C13_JdictResetEveryCall ==
    /\ (pc = "preprocess" /\ batch_i = 0) => jdict = Some(<<>>)
    /\ (HasOp("init_metrics") /\ pc # "raised") =>
           jdict = Some(IF kind = "base" THEN <<>> ELSE RecordsOf(Ops("update_metrics")))

C13_Witness ==
    /\ calls = 2 /\ training /\ pc = "preprocess" /\ batch_i = 0
    /\ kind = "task" /\ dataloader[1].split = "v" /\ speed # None
    /\ jdict = Some(<<>>)

AfterLoopOps == {"get_stats", "check_stats", "print_results", "json.dump", "eval_json",
                 "label_loss_items", "restore_float"}

\* C14: when preprocess, infer, the criterion, postprocess or update_metrics raises
\* on batch i the call ends with that failure: the failing call is the last call
\* made and was made once, no stage of a later batch runs, get_stats, check_stats,
\* print_results and eval_json are not invoked, nothing is written or returned.
C14_StageFailureAborts ==
    err = "StageError" =>
        LET failed == trace[Len(trace)]
        IN  /\ pc = "raised"
            /\ failed.op \in RaisingStages
            /\ Cardinality({k \in 1..Len(trace) :
                    trace[k].op = failed.op /\ trace[k].i = failed.i}) = 1
            /\ \A k \in 1..Len(trace) :
                    trace[k].i <= failed.i /\ trace[k].op \notin AfterLoopOps
            /\ ret = None /\ stats = None

C14_Witness ==
    /\ pc = "raised" /\ err = "StageError" /\ save_json /\ Batches >= 3
    /\ trace[Len(trace)].op = "postprocess" /\ trace[Len(trace)].i = 2
    /\ JdictPending

BatchLoopPcs == {"setup", "loop", "preprocess", "infer", "loss", "postprocess",
                 "update_metrics", "plot", "aggregate", "report"}

C15_HalfNeedsAccelerator ==
    (~Resolving /\ ~FailedPrecondition) =>
        /\ half => device # "cpu"
        /\ pc \in BatchLoopPcs => model[1].prec = (IF half THEN "half" ELSE "float")
        /\ (pc \in BatchLoopPcs /\ device = "cpu") => model[1].prec = "float"

\* C15: in both modes, after RESOLVE the half-precision flag is set only if it was
\* set before and the resolved device is not a CPU; on a CPU the flag is false and
\* the model is in full precision for the whole batch loop; the flag is never turned
\* on, and it only changes in RESOLVE, when the device is a CPU.
C15_HalfPrecisionFlag ==
    /\ []C15_HalfNeedsAccelerator
    /\ [][half' => half]_vars
    /\ [][half' # half => (pc = "resolve" /\ device' = "cpu")]_vars

C15_Witness ==
    /\ calls = 2 /\ ~training /\ pc = "infer"
    /\ device = "cuda" /\ half /\ model[1].prec = "half"

\* C16: whenever an embedded call returns, the model it evaluated (the trainer's
\* shadow model if it has one, else its live model) is in full precision, whether
\* or not it ran in half precision during the batch loop.
C16_FullPrecisionRestored ==
    (Returned /\ training) =>
        /\ model[1].src = (IF trainer.ema THEN "ema" ELSE "live")
        /\ model[1].prec = "float"
        /\ HasOp("restore_float")
        /\ \A k \in 1..Len(trace) : trace[k].op \in LoopOps => k < Pos("restore_float")

C16_Witness ==
    /\ Returned /\ training /\ half /\ HasOp("to_half") /\ Batches >= 1
    /\ trainer.ema /\ model[1].prec = "float"

\* C20: in every embedded call args.plots is set iff the trainer is on its final
\* epoch, whatever the configured option and earlier calls set; on any other epoch
\* no visualization hook is invoked for any batch.
C20_PlotsOnFinalEpochOnly ==
    (training /\ ~Resolving) =>
        /\ plots <=> trainer.final
        /\ ~trainer.final => (~HasOp("plot_val_samples") /\ ~HasOp("plot_predictions"))
        /\ (trainer.final /\ Returned /\ Batches >= 1) => HasOp("plot_val_samples")

C20_Witness ==
    /\ calls = 2 /\ training /\ Returned /\ Batches >= 1
    /\ ~trainer.final /\ ~plots /\ ~HasOp("plot_val_samples")

\* the split a standalone call is to build its dataloader over
WantedSplit == LET d == check_dataset(data) IN IF d.val # "" THEN d.val ELSE d.test

\* C17: a standalone call of a validator that has no dataloader builds one with
\* get_dataloader and the resolved batch size, over the validation split if the
\* descriptor has one and over the test split otherwise; a validator that was given
\* a dataloader does not invoke get_dataloader.
C17_ValOrTestSplit ==
    (kind # "base" /\ ~training /\ HasOp("check_dataset")) =>
        /\ err # "AttributeError"
        /\ dataloader # None
        /\ HasOp("get_dataloader") => dataloader = Some(Loader(WantedSplit, batch_size))
        /\ dataloader[1].split = "e" => ~HasOp("get_dataloader")

\* C18: with the default eval_json a standalone call that exports returns the
\* stats map of get_stats, so every standalone call that completes returns a
\* stats map.
C18_DefaultEvalJsonPassThrough ==
    (Returned /\ ~training /\ kind # "scored") => ret = Some(self_get_stats)

\* C19: a standalone call of a validator constructed without a dataloader (the
\* only ones with a dataloader over the validation split) iterates a dataloader
\* that fits this call's own descriptor and resolved batch size, not the one an
\* earlier call built with another batch size.
C19_DataloaderNotCarriedOver ==
    (kind # "base" /\ ~training /\ pc = "setup" /\ dataloader[1].split = "v") =>
        dataloader = Some(Loader(WantedSplit, batch_size))

====
